---- MODULE Spec2Model ----
(***************************************************************************)
(* The emoji lookup service of examples/agents/emoji-api: the static       *)
(* keyword table, the three-pass matcher find_best_match and the HTTP      *)
(* handler get_emoji.                                                      *)
(*                                                                         *)
(* A text is a sequence of one-character strings.  A score is an f64 in    *)
(* the source; here it is the exact rational <<numerator, denominator>>    *)
(* in lowest terms, so 1.0 is <<1, 1>> and 0.9 is <<9, 10>>.  An emoji     *)
(* literal is named by the code points of the literal as it stands in the  *)
(* source file.                                                            *)
(***************************************************************************)
EXTENDS Integers, Sequences, FiniteSets, TLC

VARIABLES
  emojiMap,   \* the LazyLock behind EMOJI_MAP: uninitialised, or the table
  pc,         \* per request: where its handler stands
  q,          \* per request: the parameter q of the request, an Option
  arg,        \* per request: the arguments find_best_match was called with
  local,      \* per request: the locals of find_best_match
  resp        \* per request: the response of the handler

vars == <<emojiMap, pc, q, arg, local, resp>>

----------------------------------------------------------------------------
(* Bounds of the model *)

\* bounded queries are all texts over Alphabet of at most this length
MaxQueryLen == 3

\* number of requests that may be in flight at once
NumReqs == 2

Reqs == 1..NumReqs

----------------------------------------------------------------------------
(* The static table, main.rs lines 13-253 *)

EMOJI_MAP ==
  <<
    [keyword |-> <<"t","a","c","o">>, emoji |-> "011F.0178.0152.00AE"],
    [keyword |-> <<"b","u","r","r","i","t","o">>, emoji |-> "011F.0178.0152.00AF"],
    [keyword |-> <<"p","i","z","z","a">>, emoji |-> "011F.0178.2022"],
    [keyword |-> <<"h","a","m","b","u","r","g","e","r">>, emoji |-> "011F.0178.201D"],
    [keyword |-> <<"h","o","t","d","o","g">>, emoji |-> "011F.0178.0152.00AD"],
    [keyword |-> <<"f","r","i","e","s">>, emoji |-> "011F.0178.0178"],
    [keyword |-> <<"p","o","p","c","o","r","n">>, emoji |-> "011F.0178.00BF"],
    [keyword |-> <<"s","a","n","d","w","i","c","h">>, emoji |-> "011F.0178.00A5.00AA"],
    [keyword |-> <<"b","a","g","e","l">>, emoji |-> "011F.0178.00A5.00AF"],
    [keyword |-> <<"p","r","e","t","z","e","l">>, emoji |-> "011F.0178.00A5.00A8"],
    [keyword |-> <<"c","h","e","e","s","e">>, emoji |-> "011F.0178.00A7.20AC"],
    [keyword |-> <<"e","g","g">>, emoji |-> "011F.0178.00A5.0161"],
    [keyword |-> <<"b","a","c","o","n">>, emoji |-> "011F.0178.00A5.201C"],
    [keyword |-> <<"s","t","e","a","k">>, emoji |-> "011F.0178.00A5.00A9"],
    [keyword |-> <<"c","h","i","c","k","e","n">>, emoji |-> "011F.0178.2014"],
    [keyword |-> <<"s","h","r","i","m","p">>, emoji |-> "011F.0178.00A6"],
    [keyword |-> <<"s","u","s","h","i">>, emoji |-> "011F.0178.00A3"],
    [keyword |-> <<"r","a","m","e","n">>, emoji |-> "011F.0178.0153"],
    [keyword |-> <<"s","p","a","g","h","e","t","t","i">>, emoji |-> "011F.0178"],
    [keyword |-> <<"r","i","c","e">>, emoji |-> "011F.0178.0161"],
    [keyword |-> <<"c","u","r","r","y">>, emoji |-> "011F.0178.203A"],
    [keyword |-> <<"d","u","m","p","l","i","n","g">>, emoji |-> "011F.0178.00A5.0178"],
    [keyword |-> <<"c","o","o","k","i","e">>, emoji |-> "011F.0178.00AA"],
    [keyword |-> <<"c","a","k","e">>, emoji |-> "011F.0178.201A"],
    [keyword |-> <<"p","i","e">>, emoji |-> "011F.0178.00A5.00A7"],
    [keyword |-> <<"c","h","o","c","o","l","a","t","e">>, emoji |-> "011F.0178.00AB"],
    [keyword |-> <<"c","a","n","d","y">>, emoji |-> "011F.0178.00AC"],
    [keyword |-> <<"l","o","l","l","i","p","o","p">>, emoji |-> "011F.0178.00AD"],
    [keyword |-> <<"d","o","n","u","t">>, emoji |-> "011F.0178.00A9"],
    [keyword |-> <<"i","c","e","c","r","e","a","m">>, emoji |-> "011F.0178.00A6"],
    [keyword |-> <<"c","o","f","f","e","e">>, emoji |-> "00E2.02DC.2022"],
    [keyword |-> <<"t","e","a">>, emoji |-> "011F.0178.00B5"],
    [keyword |-> <<"b","e","e","r">>, emoji |-> "011F.0178.00BA"],
    [keyword |-> <<"w","i","n","e">>, emoji |-> "011F.0178.00B7"],
    [keyword |-> <<"c","o","c","k","t","a","i","l">>, emoji |-> "011F.0178.00B8"],
    [keyword |-> <<"j","u","i","c","e">>, emoji |-> "011F.0178.00A7.0192"],
    [keyword |-> <<"m","i","l","k">>, emoji |-> "011F.0178.00A5.203A"],
    [keyword |-> <<"w","a","t","e","r">>, emoji |-> "011F.0178.2019.00A7"],
    [keyword |-> <<"a","p","p","l","e">>, emoji |-> "011F.0178"],
    [keyword |-> <<"b","a","n","a","n","a">>, emoji |-> "011F.0178.0152"],
    [keyword |-> <<"o","r","a","n","g","e">>, emoji |-> "011F.0178.0160"],
    [keyword |-> <<"l","e","m","o","n">>, emoji |-> "011F.0178.2039"],
    [keyword |-> <<"g","r","a","p","e">>, emoji |-> "011F.0178.2021"],
    [keyword |-> <<"w","a","t","e","r","m","e","l","o","n">>, emoji |-> "011F.0178.2030"],
    [keyword |-> <<"s","t","r","a","w","b","e","r","r","y">>, emoji |-> "011F.0178.201C"],
    [keyword |-> <<"p","e","a","c","h">>, emoji |-> "011F.0178.2018"],
    [keyword |-> <<"c","h","e","r","r","y">>, emoji |-> "011F.0178.2019"],
    [keyword |-> <<"p","i","n","e","a","p","p","l","e">>, emoji |-> "011F.0178"],
    [keyword |-> <<"c","o","c","o","n","u","t">>, emoji |-> "011F.0178.00A5.00A5"],
    [keyword |-> <<"a","v","o","c","a","d","o">>, emoji |-> "011F.0178.00A5.2018"],
    [keyword |-> <<"b","r","o","c","c","o","l","i">>, emoji |-> "011F.0178.00A5.00A6"],
    [keyword |-> <<"c","a","r","r","o","t">>, emoji |-> "011F.0178.00A5.2022"],
    [keyword |-> <<"c","o","r","n">>, emoji |-> "011F.0178.0152.00BD"],
    [keyword |-> <<"p","e","p","p","e","r">>, emoji |-> "011F.0178.0152.00B6.00EF.00B8"],
    [keyword |-> <<"m","u","s","h","r","o","o","m">>, emoji |-> "011F.0178.201E"],
    [keyword |-> <<"t","o","m","a","t","o">>, emoji |-> "011F.0178.2026"],
    [keyword |-> <<"p","o","t","a","t","o">>, emoji |-> "011F.0178.00A5.201D"],
    [keyword |-> <<"o","n","i","o","n">>, emoji |-> "011F.0178.00A7.2026"],
    [keyword |-> <<"g","a","r","l","i","c">>, emoji |-> "011F.0178.00A7.201E"],
    [keyword |-> <<"d","o","g">>, emoji |-> "011F.0178.2022"],
    [keyword |-> <<"c","a","t">>, emoji |-> "011F.0178.02C6"],
    [keyword |-> <<"m","o","u","s","e">>, emoji |-> "011F.0178"],
    [keyword |-> <<"r","a","b","b","i","t">>, emoji |-> "011F.0178.2021"],
    [keyword |-> <<"f","o","x">>, emoji |-> "011F.0178.00A6.0160"],
    [keyword |-> <<"b","e","a","r">>, emoji |-> "011F.0178.00BB"],
    [keyword |-> <<"p","a","n","d","a">>, emoji |-> "011F.0178.00BC"],
    [keyword |-> <<"k","o","a","l","a">>, emoji |-> "011F.0178.00A8"],
    [keyword |-> <<"t","i","g","e","r">>, emoji |-> "011F.0178.00AF"],
    [keyword |-> <<"l","i","o","n">>, emoji |-> "011F.0178.00A6"],
    [keyword |-> <<"c","o","w">>, emoji |-> "011F.0178.201E"],
    [keyword |-> <<"p","i","g">>, emoji |-> "011F.0178.00B7"],
    [keyword |-> <<"f","r","o","g">>, emoji |-> "011F.0178.00B8"],
    [keyword |-> <<"m","o","n","k","e","y">>, emoji |-> "011F.0178.2019"],
    [keyword |-> <<"c","h","i","c","k","e","n">>, emoji |-> "011F.0178.201D"],
    [keyword |-> <<"p","e","n","g","u","i","n">>, emoji |-> "011F.0178.00A7"],
    [keyword |-> <<"b","i","r","d">>, emoji |-> "011F.0178.00A6"],
    [keyword |-> <<"e","a","g","l","e">>, emoji |-> "011F.0178.00A6.2026"],
    [keyword |-> <<"o","w","l">>, emoji |-> "011F.0178.00A6.2030"],
    [keyword |-> <<"d","u","c","k">>, emoji |-> "011F.0178.00A6.2020"],
    [keyword |-> <<"s","w","a","n">>, emoji |-> "011F.0178.00A6.00A2"],
    [keyword |-> <<"p","a","r","r","o","t">>, emoji |-> "011F.0178.00A6.0153"],
    [keyword |-> <<"f","l","a","m","i","n","g","o">>, emoji |-> "011F.0178.00A6.00A9"],
    [keyword |-> <<"w","h","a","l","e">>, emoji |-> "011F.0178.2039"],
    [keyword |-> <<"d","o","l","p","h","i","n">>, emoji |-> "011F.0178.00AC"],
    [keyword |-> <<"s","h","a","r","k">>, emoji |-> "011F.0178.00A6.02C6"],
    [keyword |-> <<"o","c","t","o","p","u","s">>, emoji |-> "011F.0178.2122"],
    [keyword |-> <<"f","i","s","h">>, emoji |-> "011F.0178.0178"],
    [keyword |-> <<"c","r","a","b">>, emoji |-> "011F.0178.00A6.20AC"],
    [keyword |-> <<"l","o","b","s","t","e","r">>, emoji |-> "011F.0178.00A6"],
    [keyword |-> <<"t","u","r","t","l","e">>, emoji |-> "011F.0178.00A2"],
    [keyword |-> <<"s","n","a","k","e">>, emoji |-> "011F.0178"],
    [keyword |-> <<"l","i","z","a","r","d">>, emoji |-> "011F.0178.00A6"],
    [keyword |-> <<"c","r","o","c","o","d","i","l","e">>, emoji |-> "011F.0178.0160"],
    [keyword |-> <<"d","i","n","o","s","a","u","r">>, emoji |-> "011F.0178.00A6.2022"],
    [keyword |-> <<"d","r","a","g","o","n">>, emoji |-> "011F.0178.2030"],
    [keyword |-> <<"b","u","t","t","e","r","f","l","y">>, emoji |-> "011F.0178.00A6.2039"],
    [keyword |-> <<"b","e","e">>, emoji |-> "011F.0178"],
    [keyword |-> <<"a","n","t">>, emoji |-> "011F.0178.0153"],
    [keyword |-> <<"l","a","d","y","b","u","g">>, emoji |-> "011F.0178"],
    [keyword |-> <<"s","p","i","d","e","r">>, emoji |-> "011F.0178.2022.00B7.00EF.00B8"],
    [keyword |-> <<"s","c","o","r","p","i","o","n">>, emoji |-> "011F.0178.00A6.201A"],
    [keyword |-> <<"h","o","r","s","e">>, emoji |-> "011F.0178.00B4"],
    [keyword |-> <<"u","n","i","c","o","r","n">>, emoji |-> "011F.0178.00A6.201E"],
    [keyword |-> <<"z","e","b","r","a">>, emoji |-> "011F.0178.00A6.201C"],
    [keyword |-> <<"g","i","r","a","f","f","e">>, emoji |-> "011F.0178.00A6.2019"],
    [keyword |-> <<"e","l","e","p","h","a","n","t">>, emoji |-> "011F.0178.02DC"],
    [keyword |-> <<"r","h","i","n","o">>, emoji |-> "011F.0178.00A6"],
    [keyword |-> <<"h","i","p","p","o">>, emoji |-> "011F.0178.00A6.203A"],
    [keyword |-> <<"c","a","m","e","l">>, emoji |-> "011F.0178.00AB"],
    [keyword |-> <<"l","l","a","m","a">>, emoji |-> "011F.0178.00A6.2122"],
    [keyword |-> <<"g","o","r","i","l","l","a">>, emoji |-> "011F.0178.00A6"],
    [keyword |-> <<"s","l","o","t","h">>, emoji |-> "011F.0178.00A6.00A5"],
    [keyword |-> <<"o","t","t","e","r">>, emoji |-> "011F.0178.00A6.00A6"],
    [keyword |-> <<"s","k","u","n","k">>, emoji |-> "011F.0178.00A6.00A8"],
    [keyword |-> <<"h","e","d","g","e","h","o","g">>, emoji |-> "011F.0178.00A6.201D"],
    [keyword |-> <<"b","a","t">>, emoji |-> "011F.0178.00A6.2021"],
    [keyword |-> <<"w","o","l","f">>, emoji |-> "011F.0178.00BA"],
    [keyword |-> <<"d","e","e","r">>, emoji |-> "011F.0178.00A6.0152"],
    [keyword |-> <<"s","u","n">>, emoji |-> "00E2.02DC.20AC.00EF.00B8"],
    [keyword |-> <<"m","o","o","n">>, emoji |-> "011F.0178.0152.2122"],
    [keyword |-> <<"s","t","a","r">>, emoji |-> "00E2.00AD"],
    [keyword |-> <<"c","l","o","u","d">>, emoji |-> "00E2.02DC.00EF.00B8"],
    [keyword |-> <<"r","a","i","n">>, emoji |-> "011F.0178.0152.00A7.00EF.00B8"],
    [keyword |-> <<"s","n","o","w">>, emoji |-> "00E2.201E.00EF.00B8"],
    [keyword |-> <<"l","i","g","h","t","n","i","n","g">>, emoji |-> "00E2.0161.00A1"],
    [keyword |-> <<"t","o","r","n","a","d","o">>, emoji |-> "011F.0178.0152.00AA.00EF.00B8"],
    [keyword |-> <<"r","a","i","n","b","o","w">>, emoji |-> "011F.0178.0152.02C6"],
    [keyword |-> <<"f","i","r","e">>, emoji |-> "011F.0178.201D.00A5"],
    [keyword |-> <<"v","o","l","c","a","n","o">>, emoji |-> "011F.0178.0152.2039"],
    [keyword |-> <<"o","c","e","a","n">>, emoji |-> "011F.0178.0152.0160"],
    [keyword |-> <<"m","o","u","n","t","a","i","n">>, emoji |-> "011F.0178.201D.00EF.00B8"],
    [keyword |-> <<"t","r","e","e">>, emoji |-> "011F.0178.0152.00B3"],
    [keyword |-> <<"f","l","o","w","e","r">>, emoji |-> "011F.0178.0152.00B8"],
    [keyword |-> <<"r","o","s","e">>, emoji |-> "011F.0178.0152.00B9"],
    [keyword |-> <<"t","u","l","i","p">>, emoji |-> "011F.0178.0152.00B7"],
    [keyword |-> <<"s","u","n","f","l","o","w","e","r">>, emoji |-> "011F.0178.0152.00BB"],
    [keyword |-> <<"c","a","c","t","u","s">>, emoji |-> "011F.0178.0152.00B5"],
    [keyword |-> <<"l","e","a","f">>, emoji |-> "011F.0178.0192"],
    [keyword |-> <<"c","l","o","v","e","r">>, emoji |-> "011F.0178.20AC"],
    [keyword |-> <<"e","a","r","t","h">>, emoji |-> "011F.0178.0152"],
    [keyword |-> <<"s","m","i","l","e">>, emoji |-> "011F.0178.02DC.0160"],
    [keyword |-> <<"l","a","u","g","h">>, emoji |-> "011F.0178.02DC.201A"],
    [keyword |-> <<"l","o","v","e">>, emoji |-> "00E2.00A4.00EF.00B8"],
    [keyword |-> <<"h","e","a","r","t">>, emoji |-> "00E2.00A4.00EF.00B8"],
    [keyword |-> <<"k","i","s","s">>, emoji |-> "011F.0178.02DC.02DC"],
    [keyword |-> <<"w","i","n","k">>, emoji |-> "011F.0178.02DC.2030"],
    [keyword |-> <<"c","o","o","l">>, emoji |-> "011F.0178.02DC"],
    [keyword |-> <<"c","r","y">>, emoji |-> "011F.0178.02DC.00A2"],
    [keyword |-> <<"a","n","g","r","y">>, emoji |-> "011F.0178.02DC.00A0"],
    [keyword |-> <<"s","a","d">>, emoji |-> "011F.0178.02DC"],
    [keyword |-> <<"f","e","a","r">>, emoji |-> "011F.0178.02DC.00A8"],
    [keyword |-> <<"s","u","r","p","r","i","s","e">>, emoji |-> "011F.0178.02DC.00B2"],
    [keyword |-> <<"t","h","i","n","k">>, emoji |-> "011F.0178.00A4.201D"],
    [keyword |-> <<"s","l","e","e","p">>, emoji |-> "011F.0178.02DC.00B4"],
    [keyword |-> <<"s","i","c","k">>, emoji |-> "011F.0178.00A4.00AE"],
    [keyword |-> <<"c","l","o","w","n">>, emoji |-> "011F.0178.00A4.00A1"],
    [keyword |-> <<"g","h","o","s","t">>, emoji |-> "011F.0178.2018.00BB"],
    [keyword |-> <<"s","k","u","l","l">>, emoji |-> "011F.0178.2019.20AC"],
    [keyword |-> <<"a","l","i","e","n">>, emoji |-> "011F.0178.2018.00BD"],
    [keyword |-> <<"r","o","b","o","t">>, emoji |-> "011F.0178.00A4.2013"],
    [keyword |-> <<"p","o","o","p">>, emoji |-> "011F.0178.2019.00A9"],
    [keyword |-> <<"t","h","u","m","b","s","u","p">>, emoji |-> "011F.0178.2018"],
    [keyword |-> <<"t","h","u","m","b","s","d","o","w","n">>, emoji |-> "011F.0178.2018"],
    [keyword |-> <<"c","l","a","p">>, emoji |-> "011F.0178.2018"],
    [keyword |-> <<"w","a","v","e">>, emoji |-> "011F.0178.2018.2039"],
    [keyword |-> <<"p","r","a","y">>, emoji |-> "011F.0178.2122"],
    [keyword |-> <<"m","u","s","c","l","e">>, emoji |-> "011F.0178.2019.00AA"],
    [keyword |-> <<"b","r","a","i","n">>, emoji |-> "011F.0178.00A7.00A0"],
    [keyword |-> <<"e","y","e","s">>, emoji |-> "011F.0178.2018.20AC"],
    [keyword |-> <<"b","a","b","y">>, emoji |-> "011F.0178.2018.00B6"],
    [keyword |-> <<"s","o","c","c","e","r">>, emoji |-> "00E2.0161.00BD"],
    [keyword |-> <<"b","a","s","k","e","t","b","a","l","l">>, emoji |-> "011F.0178.20AC"],
    [keyword |-> <<"f","o","o","t","b","a","l","l">>, emoji |-> "011F.0178.02C6"],
    [keyword |-> <<"b","a","s","e","b","a","l","l">>, emoji |-> "00E2.0161.00BE"],
    [keyword |-> <<"t","e","n","n","i","s">>, emoji |-> "011F.0178.00BE"],
    [keyword |-> <<"v","o","l","l","e","y","b","a","l","l">>, emoji |-> "011F.0178"],
    [keyword |-> <<"r","u","g","b","y">>, emoji |-> "011F.0178.2030"],
    [keyword |-> <<"g","o","l","f">>, emoji |-> "00E2.203A.00B3"],
    [keyword |-> <<"b","o","w","l","i","n","g">>, emoji |-> "011F.0178.00B3"],
    [keyword |-> <<"h","o","c","k","e","y">>, emoji |-> "011F.0178.2019"],
    [keyword |-> <<"s","k","i","i","n","g">>, emoji |-> "00E2.203A.00B7.00EF.00B8"],
    [keyword |-> <<"s","u","r","f","i","n","g">>, emoji |-> "011F.0178.201E"],
    [keyword |-> <<"s","w","i","m","m","i","n","g">>, emoji |-> "011F.0178.0160"],
    [keyword |-> <<"c","y","c","l","i","n","g">>, emoji |-> "011F.0178.0161.00B4"],
    [keyword |-> <<"r","u","n","n","i","n","g">>, emoji |-> "011F.0178.0192"],
    [keyword |-> <<"b","o","x","i","n","g">>, emoji |-> "011F.0178.00A5.0160"],
    [keyword |-> <<"w","r","e","s","t","l","i","n","g">>, emoji |-> "011F.0178.00A4.00BC"],
    [keyword |-> <<"c","l","i","m","b","i","n","g">>, emoji |-> "011F.0178.00A7.2014"],
    [keyword |-> <<"f","i","s","h","i","n","g">>, emoji |-> "011F.0178.00A3"],
    [keyword |-> <<"c","a","m","p","i","n","g">>, emoji |-> "011F.0178.2022.00EF.00B8"],
    [keyword |-> <<"r","o","c","k","e","t">>, emoji |-> "011F.0178.0161.20AC"],
    [keyword |-> <<"a","i","r","p","l","a","n","e">>, emoji |-> "00E2.0153.02C6.00EF.00B8"],
    [keyword |-> <<"c","a","r">>, emoji |-> "011F.0178.0161.2014"],
    [keyword |-> <<"b","u","s">>, emoji |-> "011F.0178.0161.0152"],
    [keyword |-> <<"t","r","a","i","n">>, emoji |-> "011F.0178.0161.2020"],
    [keyword |-> <<"b","i","c","y","c","l","e">>, emoji |-> "011F.0178.0161.00B2"],
    [keyword |-> <<"b","o","a","t">>, emoji |-> "00E2.203A.00B5"],
    [keyword |-> <<"p","h","o","n","e">>, emoji |-> "011F.0178.201C.00B1"],
    [keyword |-> <<"c","o","m","p","u","t","e","r">>, emoji |-> "011F.0178.2019.00BB"],
    [keyword |-> <<"k","e","y","b","o","a","r","d">>, emoji |-> "00E2.0152.00A8.00EF.00B8"],
    [keyword |-> <<"c","a","m","e","r","a">>, emoji |-> "011F.0178.201C.00B7"],
    [keyword |-> <<"b","o","o","k">>, emoji |-> "011F.0178.201C.0161"],
    [keyword |-> <<"p","e","n">>, emoji |-> "011F.0178.2013.0160.00EF.00B8"],
    [keyword |-> <<"c","l","o","c","k">>, emoji |-> "011F.0178.2022"],
    [keyword |-> <<"m","o","n","e","y">>, emoji |-> "011F.0178.2019.00B0"],
    [keyword |-> <<"g","e","m">>, emoji |-> "011F.0178.2019"],
    [keyword |-> <<"t","r","o","p","h","y">>, emoji |-> "011F.0178.2020"],
    [keyword |-> <<"m","e","d","a","l">>, emoji |-> "011F.0178.2026"],
    [keyword |-> <<"c","r","o","w","n">>, emoji |-> "011F.0178.2018.2018"],
    [keyword |-> <<"g","i","f","t">>, emoji |-> "011F.0178"],
    [keyword |-> <<"b","a","l","l","o","o","n">>, emoji |-> "011F.0178.02C6"],
    [keyword |-> <<"p","a","r","t","y">>, emoji |-> "011F.0178.2030"],
    [keyword |-> <<"m","u","s","i","c">>, emoji |-> "011F.0178.00B5"],
    [keyword |-> <<"g","u","i","t","a","r">>, emoji |-> "011F.0178.00B8"],
    [keyword |-> <<"d","r","u","m">>, emoji |-> "011F.0178.00A5"],
    [keyword |-> <<"d","i","c","e">>, emoji |-> "011F.0178.00B2"],
    [keyword |-> <<"p","u","z","z","l","e">>, emoji |-> "011F.0178.00A7.00A9"],
    [keyword |-> <<"m","a","g","n","e","t">>, emoji |-> "011F.0178.00A7.00B2"],
    [keyword |-> <<"l","o","c","k">>, emoji |-> "011F.0178.201D.2019"],
    [keyword |-> <<"k","e","y">>, emoji |-> "011F.0178.201D.2018"],
    [keyword |-> <<"h","a","m","m","e","r">>, emoji |-> "011F.0178.201D.00A8"],
    [keyword |-> <<"s","h","i","e","l","d">>, emoji |-> "011F.0178.203A.00A1.00EF.00B8"],
    [keyword |-> <<"s","w","o","r","d">>, emoji |-> "00E2.0161.201D.00EF.00B8"],
    [keyword |-> <<"b","o","m","b">>, emoji |-> "011F.0178.2019.00A3"],
    [keyword |-> <<"f","l","a","g">>, emoji |-> "011F.0178"],
    [keyword |-> <<"w","a","r","n","i","n","g">>, emoji |-> "00E2.0161.00A0.00EF.00B8"],
    [keyword |-> <<"c","h","e","c","k">>, emoji |-> "00E2.0153.2026"],
    [keyword |-> <<"c","r","o","s","s">>, emoji |-> "00E2.0152"],
    [keyword |-> <<"q","u","e","s","t","i","o","n">>, emoji |-> "00E2.201C"],
    [keyword |-> <<"e","x","c","l","a","m","a","t","i","o","n">>, emoji |-> "00E2.2014"],
    [keyword |-> <<"1","0","0">>, emoji |-> "011F.0178.2019.00AF"]
  >>

----------------------------------------------------------------------------
(* Scores *)

RECURSIVE GCD(_, _)
GCD(a, b) == IF b = 0 THEN a ELSE GCD(b, a % b)

Rat(n, d) == LET g == GCD(n, d) IN <<n \div g, d \div g>>

RatLt(x, y) == x[1] * y[2] < y[1] * x[2]

RatLe(x, y) == x[1] * y[2] <= y[1] * x[2]

ScoreExact == <<1, 1>>

ScoreSubstring == <<9, 10>>

ScoreZero == <<0, 1>>

----------------------------------------------------------------------------
(* Text operations of the standard library used by the source *)

UpperCase ==
  <<"A","B","C","D","E","F","G","H","I","J","K","L","M",
    "N","O","P","Q","R","S","T","U","V","W","X","Y","Z">>

LowerCase ==
  <<"a","b","c","d","e","f","g","h","i","j","k","l","m",
    "n","o","p","q","r","s","t","u","v","w","x","y","z">>

\* char::to_lowercase on the ASCII range
LowerChar(c) ==
  IF \E k \in 1..Len(UpperCase) : UpperCase[k] = c
  THEN LowerCase[CHOOSE k \in 1..Len(UpperCase) : UpperCase[k] = c]
  ELSE c

\* str::to_lowercase
to_lowercase(s) == [i \in 1..Len(s) |-> LowerChar(s[i])]

\* char::is_whitespace
IsWhitespace(c) == c \in {" ", "\t", "\n", "\r"}

SetMin(S) == CHOOSE x \in S : \A y \in S : x <= y

SetMax(S) == CHOOSE x \in S : \A y \in S : y <= x

\* str::trim: the text without its leading and trailing whitespace
trim(s) ==
  LET keep == {i \in 1..Len(s) : ~IsWhitespace(s[i])}
  IN  IF keep = {} THEN <<>> ELSE SubSeq(s, SetMin(keep), SetMax(keep))

\* str::is_empty
is_empty(s) == Len(s) = 0

\* str::contains: needle occurs in hay as a contiguous substring
contains(hay, needle) ==
  \E i \in 0..(Len(hay) - Len(needle)) :
     \A k \in 1..Len(needle) : hay[i + k] = needle[k]

----------------------------------------------------------------------------
(* strsim::jaro_winkler, imported at main.rs line 5 *)

\* the greedy matching of jaro: character i of a takes the first unflagged
\* equal character of b within search_range of i.  The result is the
\* sequence of <<i, j>> matched, in the order of i.
RECURSIVE JaroMatches(_, _, _, _, _)
JaroMatches(a, b, i, range, found) ==
  IF i > Len(a) THEN found
  ELSE LET lo   == IF i - range > 1 THEN i - range ELSE 1
           hi   == IF i + range < Len(b) THEN i + range ELSE Len(b)
           used == {found[k][2] : k \in 1..Len(found)}
           cand == {j \in lo..hi : b[j] = a[i] /\ j \notin used}
       IN  IF cand = {}
           THEN JaroMatches(a, b, i + 1, range, found)
           ELSE JaroMatches(a, b, i + 1, range, Append(found, <<i, SetMin(cand)>>))

\* the flagged positions of b, ascending
RECURSIVE SortedSeq(_)
SortedSeq(S) ==
  IF S = {} THEN <<>> ELSE <<SetMin(S)>> \o SortedSeq(S \ {SetMin(S)})

jaro(a, b) ==
  IF Len(a) = 0 /\ Len(b) = 0 THEN ScoreExact
  ELSE IF Len(a) = 0 \/ Len(b) = 0 THEN ScoreZero
  ELSE
    LET longer == IF Len(a) > Len(b) THEN Len(a) ELSE Len(b)
        half   == longer \div 2
        range  == IF half > 0 THEN half - 1 ELSE 0
        found  == JaroMatches(a, b, 1, range, <<>>)
        m      == Len(found)
        bpos   == SortedSeq({found[k][2] : k \in 1..m})
        differ == Cardinality({k \in 1..m : a[found[k][1]] # b[bpos[k]]})
        t      == differ \div 2
    IN  IF m = 0 THEN ScoreZero
        ELSE Rat(m * m * Len(b) + m * m * Len(a) + (m - t) * Len(a) * Len(b),
                 3 * Len(a) * Len(b) * m)

\* length of the common prefix of a and b, over at most the first 4 characters
PrefixLength(a, b) ==
  LET n    == IF Len(a) < Len(b) THEN Len(a) ELSE Len(b)
      top  == IF n < 4 THEN n ELSE 4
      same == {k \in 0..top : \A x \in 1..k : a[x] = b[x]}
  IN  SetMax(same)

jaro_winkler(a, b) ==
  LET sim == jaro(a, b)
  IN  IF RatLt(<<7, 10>>, sim)
      THEN Rat(10 * sim[1] + PrefixLength(a, b) * (sim[2] - sim[1]), 10 * sim[2])
      ELSE sim

----------------------------------------------------------------------------
(* find_best_match, main.rs lines 285-312 *)

\* the tuple a return statement of find_best_match yields; pass records
\* which return statement it was
Match(entry, score, pass) ==
  [keyword |-> entry.keyword, emoji |-> entry.emoji, score |-> score, pass |-> pass]

\* ("", "", 0.0), the initial best of pass 3 (line 303)
EmptyBest == [keyword |-> <<>>, emoji |-> "", score |-> ScoreZero, pass |-> "similarity"]

\* no return statement reached yet
NoMatch == [keyword |-> <<>>, emoji |-> "", score |-> ScoreZero, pass |-> "none"]

LastHit(hits) == SetMax(hits)

\* the entry a for loop with an early return stops at: the first in table
\* order of those its condition holds for
FirstHit(hits) == SetMin(hits)

\* Pass 1, lines 289-293
ExactPass(entries, query_lower) ==
  LET hits == {i \in 1..Len(entries) : entries[i].keyword = query_lower}
  IN  IF hits = {} THEN NoMatch
      ELSE Match(entries[FirstHit(hits)], ScoreExact, "exact")

SubstringPassOneWay(entries, query_lower) ==
  LET hits == {i \in 1..Len(entries) : contains(entries[i].keyword, query_lower)}
  IN  IF hits = {} THEN NoMatch
      ELSE Match(entries[FirstHit(hits)], ScoreSubstring, "substring")

\* Pass 2, lines 296-300
SubstringPass(entries, query_lower) ==
  LET hits == {i \in 1..Len(entries) :
                 \/ contains(entries[i].keyword, query_lower)
                 \/ contains(query_lower, entries[i].keyword)}
  IN  IF hits = {} THEN NoMatch
      ELSE Match(entries[FirstHit(hits)], ScoreSubstring, "substring")

ReplacesBestOrEqual(score, best) == RatLe(best.score, score)

ReplacesBestReversed(score, best) == RatLt(score, best.score)

\* line 306: score > best.2
ReplacesBest(score, best) == RatLt(best.score, score)

\* one iteration of the loop of pass 3, lines 305-308
SimilarityStep(query_lower, entry, best) ==
  LET score == jaro_winkler(query_lower, entry.keyword)
  IN  IF ReplacesBest(score, best) THEN Match(entry, score, "similarity") ELSE best

\* the loop of pass 3 over entries lo..hi in table order, from the best so
\* far; the range is run as its first half and then its second
RECURSIVE SimilarityScan(_, _, _, _, _)
SimilarityScan(entries, query_lower, lo, hi, best) ==
  IF lo > hi THEN best
  ELSE IF lo = hi THEN SimilarityStep(query_lower, entries[lo], best)
  ELSE LET mid  == (lo + hi) \div 2
           left == SimilarityScan(entries, query_lower, lo, mid, best)
       IN  IF left = best
           THEN SimilarityScan(entries, query_lower, mid + 1, hi, best)
           ELSE SimilarityScan(entries, query_lower, mid + 1, hi, left)

\* Pass 3, lines 303-311
SimilarityPass(entries, query_lower) ==
  SimilarityScan(entries, query_lower, 1, Len(entries), EmptyBest)

find_best_match_substring_first(entries, query) ==
  LET query_lower == to_lowercase(query)
      p1 == ExactPass(entries, query_lower)
      p2 == SubstringPass(entries, query_lower)
  IN  IF p2.pass # "none" THEN p2
      ELSE IF p1.pass # "none" THEN p1
      ELSE SimilarityPass(entries, query_lower)

find_best_match(entries, query) ==
  LET query_lower == to_lowercase(query)
      p1 == ExactPass(entries, query_lower)
      p2 == SubstringPass(entries, query_lower)
  IN  IF p1.pass # "none" THEN p1
      ELSE IF p2.pass # "none" THEN p2
      ELSE SimilarityPass(entries, query_lower)

----------------------------------------------------------------------------
(* EMOJI_MAP as a LazyLock, main.rs lines 13-14 *)

Uninit == [init |-> FALSE, entries |-> <<>>]

LazyForceDrain(lock) ==
  IF lock.init THEN [init |-> TRUE, entries |-> Tail(lock.entries)]
  ELSE [init |-> TRUE, entries |-> EMOJI_MAP]

\* LazyLock::force, behind EMOJI_MAP.iter(): the first access runs the
\* initialiser, every later one finds its value
LazyForce(lock) ==
  IF lock.init THEN lock ELSE [init |-> TRUE, entries |-> EMOJI_MAP]

----------------------------------------------------------------------------
(* get_emoji, main.rs lines 327-347 *)

None == [some |-> FALSE, val |-> <<>>]

Some(s) == [some |-> TRUE, val |-> s]

NoResp == [status |-> 0, body |-> [error |-> ""]]

\* lines 331-335; the message is the source's, without the quotes around q
BadRequest == [status |-> 400, body |-> [error |-> "query parameter q is required"]]

\* (score * 1000.0).round() / 1000.0, line 344
Round3(score) == Rat((2000 * score[1] + score[2]) \div (2 * score[2]), 1000)

\* Json(EmojiResponse {..}), lines 341-346
Ok(m) ==
  [status |-> 200,
   body   |-> [emoji |-> m.emoji, matched_keyword |-> m.keyword, score |-> Round3(m.score)]]

AcceptsAll(qo) == qo.some

\* the guard of line 329: Some(q) if !q.trim().is_empty()
Accepts(qo) == qo.some /\ ~is_empty(trim(qo.val))

\* the query bound at line 329 and passed at line 339
QueryArg(qo) == qo.val

\* the handler run alone over a table: the calls it makes and its response
get_emoji(entries, qo) ==
  IF ~Accepts(qo)
  THEN [calls |-> <<>>, result |-> NoMatch, resp |-> BadRequest]
  ELSE LET m == find_best_match(entries, QueryArg(qo))
       IN  [calls |-> <<QueryArg(qo)>>, result |-> m, resp |-> Ok(m)]

----------------------------------------------------------------------------
(* Requests *)

Alphabet == {"c", "a", "r", "C", " ", "7"}

BoundedQueries == UNION {[1..n -> Alphabet] : n \in 0..MaxQueryLen}

NamedQueries ==
  { <<"t","a","c","o">>,
    <<"T","a","c","o">>,
    <<"t","a","c","o","s">>,
    <<"t","a","c","o","o">>,
    <<" ","t","a","c","o"," ">>,
    <<"t","c","a","o">>,
    <<"c","a","r">>,
    <<"C","A","R">>,
    <<" ","c","a","r">>,
    <<"c","a","r","r","o","t">>,
    <<"c","h","i","c","k","e","n">>,
    <<"c","h","i","c","k">>,
    <<"c","h","i","c","k","n">>,
    <<"c","h","i","k","c","e","n">>,
    <<"p","i","z","z","z","a">>,
    <<"1","0","0">>,
    <<"!","!">> }

Queries == BoundedQueries \cup NamedQueries

QueryOpts == {None} \cup {Some(s) : s \in Queries}

\* the requests sent concurrently
ConcQueryOpts ==
  { None,
    Some(<<" ">>),
    Some(<<"c","a","r">>),
    Some(<<" ","t","a","c","o"," ">>),
    Some(<<"t","c","a","o">>),
    Some(<<"7">>) }

NoLocal == [query_lower |-> <<>>, result |-> NoMatch]

Init ==
  /\ emojiMap = Uninit
  /\ pc = [r \in Reqs |-> "idle"]
  /\ q = [r \in Reqs |-> None]
  /\ arg = [r \in Reqs |-> <<>>]
  /\ local = [r \in Reqs |-> NoLocal]
  /\ resp = [r \in Reqs |-> NoResp]

\* a client sends a request
Send(r, qo) ==
  /\ pc[r] = "idle"
  /\ pc' = [pc EXCEPT ![r] = "sent"]
  /\ q' = [q EXCEPT ![r] = qo]
  /\ UNCHANGED <<emojiMap, arg, local, resp>>

\* the client takes the response
Recv(r) ==
  /\ pc[r] = "done"
  /\ pc' = [pc EXCEPT ![r] = "idle"]
  /\ q' = [q EXCEPT ![r] = None]
  /\ arg' = [arg EXCEPT ![r] = <<>>]
  /\ local' = [local EXCEPT ![r] = NoLocal]
  /\ resp' = [resp EXCEPT ![r] = NoResp]
  /\ UNCHANGED emojiMap

\* the whole handler, run without interruption
GetEmoji(r) ==
  /\ pc[r] = "sent"
  /\ emojiMap' = IF Accepts(q[r]) THEN LazyForce(emojiMap) ELSE emojiMap
  /\ LET out == get_emoji(emojiMap'.entries, q[r])
     IN  /\ arg' = [arg EXCEPT ![r] = out.calls]
         /\ local' = [local EXCEPT ![r] =
                        IF Accepts(q[r])
                        THEN [query_lower |-> to_lowercase(QueryArg(q[r])),
                              result |-> out.result]
                        ELSE NoLocal]
         /\ resp' = [resp EXCEPT ![r] = out.resp]
  /\ pc' = [pc EXCEPT ![r] = "done"]
  /\ UNCHANGED q

\* one connection: its requests are served one after another
Next ==
  \/ \E qo \in QueryOpts : Send(1, qo)
  \/ GetEmoji(1)
  \/ Recv(1)

Spec == Init /\ [][Next]_vars

----------------------------------------------------------------------------
(* Concurrent requests: the handler of each runs on its own worker thread, *)
(* interleaved with the others between the passes of find_best_match.     *)

\* lines 328-337, and line 286 once the query is accepted
Validate(r) ==
  /\ pc[r] = "sent"
  /\ IF Accepts(q[r])
     THEN /\ arg' = [arg EXCEPT ![r] = <<QueryArg(q[r])>>]
          /\ local' = [local EXCEPT ![r] =
                         [query_lower |-> to_lowercase(QueryArg(q[r])),
                          result |-> NoMatch]]
          /\ pc' = [pc EXCEPT ![r] = "pass1"]
          /\ UNCHANGED resp
     ELSE /\ resp' = [resp EXCEPT ![r] = BadRequest]
          /\ pc' = [pc EXCEPT ![r] = "done"]
          /\ UNCHANGED <<arg, local>>
  /\ UNCHANGED <<emojiMap, q>>

\* one pass of find_best_match over the table, with m what the pass found:
\* it returns, or falls through to the next
RunPass(r, m, next) ==
  /\ emojiMap' = LazyForce(emojiMap)
  /\ IF m.pass # "none"
     THEN /\ local' = [local EXCEPT ![r].result = m]
          /\ pc' = [pc EXCEPT ![r] = "respond"]
     ELSE /\ pc' = [pc EXCEPT ![r] = next]
          /\ UNCHANGED local
  /\ UNCHANGED <<q, arg, resp>>

\* lines 289-293
StepPass1(r) ==
  /\ pc[r] = "pass1"
  /\ RunPass(r, ExactPass(LazyForce(emojiMap).entries, local[r].query_lower), "pass2")

\* lines 296-300
StepPass2(r) ==
  /\ pc[r] = "pass2"
  /\ RunPass(r, SubstringPass(LazyForce(emojiMap).entries, local[r].query_lower), "pass3")

\* lines 303-311
StepPass3(r) ==
  /\ pc[r] = "pass3"
  /\ RunPass(r, SimilarityPass(LazyForce(emojiMap).entries, local[r].query_lower), "respond")

\* lines 341-346
Respond(r) ==
  /\ pc[r] = "respond"
  /\ resp' = [resp EXCEPT ![r] = Ok(local[r].result)]
  /\ pc' = [pc EXCEPT ![r] = "done"]
  /\ UNCHANGED <<emojiMap, q, arg, local>>

ConcNext ==
  \E r \in Reqs :
     \/ \E qo \in ConcQueryOpts : Send(r, qo)
     \/ Validate(r)
     \/ StepPass1(r)
     \/ StepPass2(r)
     \/ StepPass3(r)
     \/ Respond(r)
     \/ Recv(r)

ConcSpec == Init /\ [][ConcNext]_vars

----------------------------------------------------------------------------
(* Properties *)

Done(r) == pc[r] = "done"

\* find_best_match has been called for request r
Called(r) == Len(arg[r]) > 0

Result(r) == local[r].result

Keywords == 1..Len(EMOJI_MAP)

Text_car == <<"c","a","r">>

Text_taco == <<"t","a","c","o">>

Text_tacoo == <<"t","a","c","o","o">>

Text_tcao == <<"t","c","a","o">>

Text_chicken == <<"c","h","i","c","k","e","n">>

\* the entries whose keyword equals the text
ExactHits(text) == {i \in Keywords : EMOJI_MAP[i].keyword = text}

\* the entries that contain the text or are contained in it
SubstringHits(text) ==
  {i \in Keywords : \/ contains(EMOJI_MAP[i].keyword, text)
                    \/ contains(text, EMOJI_MAP[i].keyword)}

IsEntry(m, i) ==
  m.keyword = EMOJI_MAP[i].keyword /\ m.emoji = EMOJI_MAP[i].emoji

\* the parameter q is missing, empty or whitespace-only
Blank(qo) == ~qo.some \/ \A i \in 1..Len(qo.val) : IsWhitespace(qo.val[i])

\* C1: a query whose lower-cased form equals a keyword gets the first entry
\* in table order with that keyword, with score exactly 1.0, also when an
\* earlier entry matches it by substring containment.
C1_ExactFirst ==
  \A r \in Reqs :
     Done(r) /\ Called(r) /\ ExactHits(to_lowercase(arg[r][1])) # {} =>
        /\ IsEntry(Result(r), SetMin(ExactHits(to_lowercase(arg[r][1]))))
        /\ Result(r).score = <<1, 1>>

\* "car" is answered with "car" although "carrot" stands earlier in the table
C1_Witness ==
  \E r \in Reqs :
     /\ Done(r) /\ arg[r] = <<Text_car>>
     /\ Result(r).keyword = Text_car /\ Result(r).score = <<1, 1>>
     /\ \E i \in SubstringHits(Text_car) : i < SetMin(ExactHits(Text_car))

\* C2: a query whose lower-cased form equals no keyword but contains one or
\* is contained in one gets the first entry in table order for which either
\* containment holds, with score exactly 0.9.
C2_SubstringFirst ==
  \A r \in Reqs :
     /\ Done(r) /\ Called(r)
     /\ ExactHits(to_lowercase(arg[r][1])) = {}
     /\ SubstringHits(to_lowercase(arg[r][1])) # {}
     => /\ IsEntry(Result(r), SetMin(SubstringHits(to_lowercase(arg[r][1]))))
        /\ Result(r).score = <<9, 10>>

\* a query with several containing keywords, answered with the first of them
C2_Witness ==
  \E r \in Reqs :
     /\ Done(r) /\ Called(r)
     /\ ExactHits(to_lowercase(arg[r][1])) = {}
     /\ Cardinality(SubstringHits(to_lowercase(arg[r][1]))) > 1
     /\ Result(r).score = <<9, 10>>

\* C3: for every non-empty query the (keyword, symbol) returned by
\* find_best_match is an entry of the table, also when no keyword has a
\* similarity above 0.
C3_ResultIsEntry ==
  \A r \in Reqs :
     Done(r) /\ Called(r) /\ Len(arg[r][1]) > 0 =>
        \E i \in Keywords : IsEntry(Result(r), i)

\* C4 as claimed: "tacoo" is resolved by the similarity pass, with keyword
\* "taco" and a score strictly below 0.9.
C4_TacooBySimilarity ==
  \A r \in Reqs :
     Done(r) /\ arg[r] = <<Text_tacoo>> =>
        /\ Result(r).pass = "similarity"
        /\ Result(r).keyword = Text_taco
        /\ RatLt(Result(r).score, <<9, 10>>)

\* C4 as amended: "tacoo" contains the keyword "taco", so the substring pass
\* resolves it: keyword "taco" with score exactly 0.9.
C4_TacooBySubstring ==
  \A r \in Reqs :
     Done(r) /\ arg[r] = <<Text_tacoo>> =>
        /\ Result(r).pass = "substring"
        /\ Result(r).keyword = Text_taco
        /\ Result(r).score = <<9, 10>>

C4_Witness ==
  \E r \in Reqs :
     Done(r) /\ arg[r] = <<Text_tacoo>> /\ resp[r].status = 200

\* C5: get_emoji answers 400 with an error body, never calling
\* find_best_match and producing no match, when q is missing, empty or
\* whitespace-only; for every other q it calls find_best_match exactly once
\* and answers with the match.
C5_RejectsBlank ==
  \A r \in Reqs :
     /\ Blank(q[r]) => arg[r] = <<>> /\ Result(r).pass = "none"
     /\ Done(r) =>
          IF Blank(q[r])
          THEN /\ resp[r].status = 400
               /\ resp[r].body = [error |-> "query parameter q is required"]
          ELSE /\ Len(arg[r]) = 1
               /\ Result(r).pass # "none"
               /\ resp[r].status = 200
               /\ resp[r].body.emoji = Result(r).emoji
               /\ resp[r].body.matched_keyword = Result(r).keyword

\* a whitespace-only q has been rejected
C5_Witness ==
  \E r \in Reqs :
     /\ Done(r) /\ q[r].some /\ Len(q[r].val) > 0 /\ Blank(q[r])
     /\ resp[r].status = 400 /\ arg[r] = <<>>

\* C6: every query get_emoji passes to find_best_match is non-empty and
\* trimmed, so a q that is a keyword surrounded by whitespace is answered
\* as an exact match with score 1.0.
C6_ArgTrimmed ==
  \A r \in Reqs :
     Called(r) =>
        /\ Len(arg[r][1]) > 0
        /\ arg[r][1] = trim(arg[r][1])
        /\ Done(r) /\ ExactHits(to_lowercase(trim(q[r].val))) # {}
             => Result(r).score = <<1, 1>>

\* the maximum similarity is attained and nothing exceeds it
IsMaxSimilarity(score, text) ==
  /\ \A i \in Keywords : RatLe(jaro_winkler(text, EMOJI_MAP[i].keyword), score)
  /\ \E i \in Keywords : jaro_winkler(text, EMOJI_MAP[i].keyword) = score

\* C7 as claimed: a query that matches no keyword exactly and none by
\* substring containment gets a score strictly less than 0.9.
C7_FuzzyBelowSubstring ==
  \A r \in Reqs :
     /\ Done(r) /\ Called(r)
     /\ ExactHits(local[r].query_lower) = {}
     /\ SubstringHits(local[r].query_lower) = {}
     => RatLt(Result(r).score, <<9, 10>>)

\* C7 as amended: such a query gets the maximum Jaro-Winkler similarity over
\* the table, which is at most 1.0 and need not be below 0.9.
C7_FuzzyIsMaxSimilarity ==
  \A r \in Reqs :
     /\ Done(r) /\ Called(r)
     /\ ExactHits(local[r].query_lower) = {}
     /\ SubstringHits(local[r].query_lower) = {}
     => /\ IsMaxSimilarity(Result(r).score, local[r].query_lower)
        /\ RatLe(<<0, 1>>, Result(r).score)
        /\ RatLe(Result(r).score, <<1, 1>>)

\* a fuzzy match that scores above 0.9
C7_Witness ==
  \E r \in Reqs :
     /\ Done(r) /\ arg[r] = <<Text_tcao>>
     /\ Result(r).pass = "similarity"
     /\ RatLt(<<9, 10>>, Result(r).score)

\* what each concurrent request would get if it ran alone
Alone == [qo \in ConcQueryOpts |-> get_emoji(EMOJI_MAP, qo)]

\* C8: concurrent requests leave the table as initialised, each gets the
\* response it would get alone, and equal queries get equal results.
C8_ConcurrentAsAlone ==
  /\ emojiMap.init => emojiMap.entries = EMOJI_MAP
  /\ \A r \in Reqs :
        Done(r) => /\ resp[r] = Alone[q[r]].resp
                   /\ arg[r] = Alone[q[r]].calls
                   /\ Result(r) = Alone[q[r]].result
  /\ \A r, s \in Reqs :
        Done(r) /\ Done(s) /\ q[r] = q[s] =>
           resp[r] = resp[s] /\ Result(r) = Result(s)

\* a request has been answered while another with the same query is still
\* between the passes of the matcher
C8_Witness ==
  \E r, s \in Reqs :
     /\ r # s /\ q[r] = q[s]
     /\ Done(r) /\ resp[r].status = 200
     /\ pc[s] = "pass3"

\* C9: a query that reaches the similarity pass gets the maximum similarity
\* over the table as its score and the first entry in table order that
\* attains it.
C9_FirstMaxSimilarity ==
  \A r \in Reqs :
     Done(r) /\ Called(r) /\ Result(r).pass = "similarity" =>
        LET text == local[r].query_lower
            best == {i \in Keywords :
                       jaro_winkler(text, EMOJI_MAP[i].keyword) = Result(r).score}
        IN  /\ IsMaxSimilarity(Result(r).score, text)
            /\ IsEntry(Result(r), SetMin(best))

\* C10: a result that carries a keyword occurring more than once in the
\* table carries the symbol of its first occurrence.
C10_FirstOccurrence ==
  \A r \in Reqs :
     Done(r) /\ Called(r) /\ Cardinality(ExactHits(Result(r).keyword)) > 1 =>
        Result(r).emoji = EMOJI_MAP[SetMin(ExactHits(Result(r).keyword))].emoji

\* the similarity pass has returned the keyword that occurs twice
C10_Witness ==
  \E r \in Reqs :
     /\ Done(r) /\ Result(r).pass = "similarity"
     /\ Result(r).keyword = Text_chicken
     /\ Cardinality(ExactHits(Text_chicken)) = 2

====
